---- MODULE Spec2Model ----
(***************************************************************************)
(* DVR_Markers2YT_Chapters: the EDL-to-chapter-list transformation of      *)
(* bot.py (DVChapterBot._format_chapters) and the upload handler around    *)
(* it.  Python strings are sequences of one-character strings, so          *)
(* substring tests and the two regular expressions are computed character  *)
(* by character.  Python indices are 0-based: lines[k] is At(lines, k).    *)
(***************************************************************************)
EXTENDS Naturals, Integers, Sequences, FiniteSets, TLC

VARIABLES db, pc, lines, result, reply

vars == <<db, pc, lines, result, reply>>

(***************************************************************************)
(* Bounds of the model.                                                    *)
(***************************************************************************)
\* longest uploaded file, in lines
MaxLines == 10

Users == {"u1", "u2"}

(***************************************************************************)
(* String literals of the program.                                         *)
(***************************************************************************)
\* 'C:ResolveColor'
COLOR_TAG == <<"C", ":", "R", "e", "s", "o", "l", "v", "e", "C", "o", "l", "o", "r">>

\* 'CAPITOLI\n--------------------'
CHAPTERS_HEADER == <<"C", "A", "P", "I", "T", "O", "L", "I", "\n", "-", "-", "-", "-", "-", "-", "-", "-", "-", "-", "-", "-", "-", "-", "-", "-", "-", "-", "-", "-">>

\* '|M:' and ' |D:' of the label pattern
NAME_OPEN == <<"|", "M", ":">>

NAME_CLOSE == <<" ", "|", "D", ":">>

\* the table's defaults: m_color 'Blue', c_separator '-'
DefaultRow == [m_color |-> <<"B", "l", "u", "e">>, c_separator |-> <<"-">>]

\* messages of the configuration (their text comes from the environment)
EDL_FILE_ERROR_MESSAGE == <<"EDL_FILE_ERROR_MESSAGE">>

UPLOAD_EDL_FILE_MESSAGE == <<"UPLOAD_EDL_FILE_MESSAGE">>

ERROR_MESSAGE == <<"ERROR_MESSAGE">>

RAM_FULL_MESSAGE == <<"RAM_FULL_MESSAGE">>

MARKERS_COLOR_UPDATED_MESSAGE(m_color) == <<"MARKERS_COLOR_UPDATED_MESSAGE">> \o m_color

CHAPTERS_SEPARATOR_UPDATED_MESSAGE(c_separator) == <<"CHAPTERS_SEPARATOR_UPDATED_MESSAGE">> \o c_separator

(***************************************************************************)
(* Inputs: colours, separators and the lines files are made of.            *)
(***************************************************************************)
Blue == <<"B", "l", "u", "e">>

Red == <<"R", "e", "d">>

\* M_COLORS, the palette of the colour keyboard
M_COLORS == {Blue, Red}

\* separators a user stores: '-' and '|'
Separators == {<<"-">>, <<"|">>}

\* separators a run is compared under: those, '.' and '|.'
ComparedSeparators == Separators \cup {<<".">>, <<"|", ".">>}

\* 'TITLE\n'
HeaderLine == <<"T", "I", "T", "L", "E", "\n">>

\* '\n'
BlankLine == <<"\n">>

\* '00:01:23:00\n': HH:MM:SS occurs twice, as '00:01:23' and as '01:23:00'
T_ok == <<"0", "0", ":", "0", "1", ":", "2", "3", ":", "0", "0", "\n">>

\* '0:01:23 1:2:3\n': no HH:MM:SS
T_bad == <<"0", ":", "0", "1", ":", "2", "3", " ", "1", ":", "2", ":", "3", "\n">>

\* ' |C:ResolveColorBlue |M:Intro |D:1\n'
M_blue == <<" ", "|", "C", ":", "R", "e", "s", "o", "l", "v", "e", "C", "o", "l", "o", "r", "B", "l", "u", "e", " ", "|", "M", ":", "I", "n", "t", "r", "o", " ", "|", "D", ":", "1", "\n">>

\* ' |C:ResolveColorRed |M:End |D:1\n'
M_red == <<" ", "|", "C", ":", "R", "e", "s", "o", "l", "v", "e", "C", "o", "l", "o", "r", "R", "e", "d", " ", "|", "M", ":", "E", "n", "d", " ", "|", "D", ":", "1", "\n">>

\* ' |C:ResolveColorBlue |M:Intro|D:1\n': no ' |D:' after the label
M_nolabel == <<" ", "|", "C", ":", "R", "e", "s", "o", "l", "v", "e", "C", "o", "l", "o", "r", "B", "l", "u", "e", " ", "|", "M", ":", "I", "n", "t", "r", "o", "|", "D", ":", "1", "\n">>

\* '|M:a|M:b |D: |D:C:ResolveColorRed\n': two '|M:' and two ' |D:'
M_multi == <<"|", "M", ":", "a", "|", "M", ":", "b", " ", "|", "D", ":", " ", "|", "D", ":", "C", ":", "R", "e", "s", "o", "l", "v", "e", "C", "o", "l", "o", "r", "R", "e", "d", "\n">>

\* '09:09:09 C:ResolveColorBlue C:ResolveColorRed |M:X |D:\n': a line that
\* would yield a chapter for either colour wherever it were inspected
Decoy == <<"0", "9", ":", "0", "9", ":", "0", "9", " ", "C", ":", "R", "e", "s", "o", "l", "v", "e", "C", "o", "l", "o", "r", "B", "l", "u", "e", " ", "C", ":", "R", "e", "s", "o", "l", "v", "e", "C", "o", "l", "o", "r", "R", "e", "d", " ", "|", "M", ":", "X", " ", "|", "D", ":", "\n">>

TimestampLines == {T_ok, T_bad}

MetadataLines == {M_blue, M_red, M_nolabel, M_multi}

\* the lines a file may hold at 0-based index k: a 3-line header, then
\* records of a timestamp line, a metadata line and a third line
LinesAt(k) ==
  IF k < 3 THEN {HeaderLine}
  ELSE IF k % 3 = 0 THEN TimestampLines
  ELSE IF k % 3 = 1 THEN MetadataLines
  ELSE {BlankLine}

RECURSIVE FilesOfLen(_)
FilesOfLen(n) ==
  IF n = 0 THEN {<<>>}
  ELSE {Append(f, l) : f \in FilesOfLen(n - 1), l \in LinesAt(n - 1)}

Files == UNION {FilesOfLen(n) : n \in 0..MaxLines}

(***************************************************************************)
(* Python primitives.                                                      *)
(***************************************************************************)
\* lines[k], 0-based
At(s, k) == s[k + 1]

\* lines[k] raises IndexError unless 0 <= k < len(lines) (k is never negative here)
ValidIndex(s, k) == k >= 0 /\ k < Len(s)

\* s[p..p+len(sub)-1] = sub, p 1-based
OccursAt(s, sub, p) ==
  /\ p >= 1
  /\ p + Len(sub) - 1 <= Len(s)
  /\ \A j \in 1..Len(sub) : s[p + j - 1] = sub[j]

\* sub in s
Contains(s, sub) == \E p \in 1..(Len(s) + 1) : OccursAt(s, sub, p)

\* range(start, stop, step) as the sequence of its values, step > 0
py_range(start, stop, step) ==
  LET count == IF stop <= start THEN 0 ELSE (stop - start + step - 1) \div step
  IN  [k \in 1..count |-> start + step * (k - 1)]

\* '\n'.join(parts)
RECURSIVE join_newline(_)
join_newline(parts) ==
  IF parts = <<>> THEN <<>>
  ELSE IF Len(parts) = 1 THEN parts[1]
  ELSE parts[1] \o <<"\n">> \o join_newline(Tail(parts))

Digits == {"0", "1", "2", "3", "4", "5", "6", "7", "8", "9"}

NoMatch == [matched |-> FALSE, group |-> <<>>]

Match(g) == [matched |-> TRUE, group |-> g]

\* the pattern \d{2}:\d{2}:\d{2} matches s at p
TimeAt(s, p) ==
  /\ p + 7 <= Len(s)
  /\ \A j \in {0, 1, 3, 4, 6, 7} : s[p + j] \in Digits
  /\ \A j \in {2, 5} : s[p + j] = ":"

\* re.search(r"\d{2}:\d{2}:\d{2}", s): the leftmost match, group(0)
re_search_time(s) ==
  LET starts == {p \in 1..Len(s) : TimeAt(s, p)}
  IN  IF starts = {} THEN NoMatch
      ELSE LET p == CHOOSE x \in starts : \A y \in starts : x <= y
           IN  Match(SubSeq(s, p, p + 7))

\* \|M:(.*?) \|D: matches s from p with the group ending before q:
\* '.' matches any character but a newline
NameAt(s, p, q) ==
  /\ OccursAt(s, NAME_OPEN, p)
  /\ q >= p + 3
  /\ OccursAt(s, NAME_CLOSE, q)
  /\ \A j \in (p + 3)..(q - 1) : s[j] # "\n"

\* the positions from which \|M:(.*?) \|D: matches s
NameStarts(s) ==
  {p \in 1..Len(s) : OccursAt(s, NAME_OPEN, p) /\ \E q \in (p + 3)..Len(s) : NameAt(s, p, q)}

\* as re_search_name, with the greedy group (.*) in place of (.*?)
re_search_name_greedy(s) ==
  LET starts == NameStarts(s)
  IN  IF starts = {} THEN NoMatch
      ELSE LET p == CHOOSE x \in starts : \A y \in starts : x <= y
               ends == {q \in (p + 3)..Len(s) : NameAt(s, p, q)}
               q == CHOOSE x \in ends : \A y \in ends : x >= y
           IN  Match(SubSeq(s, p + 3, q - 1))

\* re.search(r"\|M:(.*?) \|D:", s): the leftmost start that matches, and
\* from it the shortest group; group(1)
re_search_name(s) ==
  LET starts == NameStarts(s)
  IN  IF starts = {} THEN NoMatch
      ELSE LET p == CHOOSE x \in starts : \A y \in starts : x <= y
               ends == {q \in (p + 3)..Len(s) : NameAt(s, p, q)}
               q == CHOOSE x \in ends : \A y \in ends : x <= y
           IN  Match(SubSeq(s, p + 3, q - 1))

(***************************************************************************)
(* DatabaseManager: the choices table, one row per known user.             *)
(***************************************************************************)
\* INSERT OR IGNORE INTO choices (user_id): a new row takes the defaults
add_user(table, user_id) ==
  [u \in DOMAIN table \cup {user_id} |->
     IF u \in DOMAIN table THEN table[u] ELSE DefaultRow]

\* SELECT * FROM choices WHERE user_id = ?
get_choices(user_id) == db[user_id]

\* as update_markers_color, with the WHERE clause left out
update_markers_color_all_rows(table, user_id, m_color) ==
  [u \in DOMAIN table |-> [table[u] EXCEPT !.m_color = m_color]]

\* UPDATE choices SET m_color = ? WHERE user_id = ?
update_markers_color(table, user_id, m_color) ==
  [u \in DOMAIN table |->
     IF u = user_id THEN [table[u] EXCEPT !.m_color = m_color] ELSE table[u]]

\* UPDATE choices SET c_separator = ? WHERE user_id = ?
update_chapters_separator(table, user_id, c_separator) ==
  [u \in DOMAIN table |->
     IF u = user_id THEN [table[u] EXCEPT !.c_separator = c_separator] ELSE table[u]]

(***************************************************************************)
(* DVChapterBot._format_chapters.  An outcome is a returned string or a    *)
(* raised exception.                                                       *)
(***************************************************************************)
Return(v) == [exc |-> "none", val |-> v]

Raise(e) == [exc |-> e, val |-> <<>>]

\* no call has been made
NoResult == [exc |-> "unset", val |-> <<>>]

\* as TooFewLines, with the threshold one too low
TooFewLinesOffByOne(n_lines) == n_lines < 5

\* n_lines < 6
TooFewLines(n_lines) == n_lines < 6

\* as RecordIndices, with the loop starting at the first line
RecordIndicesFromZero(n_lines) == py_range(0, n_lines, 3)

\* range(3, n_lines, 3)
RecordIndices(n_lines) == py_range(3, n_lines, 3)

\* f'C:ResolveColor{m_color}' in lines[i+1]
ColorMatches(m_color, meta_line) == Contains(meta_line, COLOR_TAG \o m_color)

\* f'{m_time.group(0)} {c_separator} {m_name.group(1)}'
ChapterLine(time, c_separator, name) ==
  time \o <<" ">> \o c_separator \o <<" ">> \o name

\* as RecordEntries, with the separator taking part in the match
RecordEntriesSeparatorMatched(m_color, c_separator, ts_line, meta_line) ==
  IF ColorMatches(m_color, meta_line) /\ Contains(meta_line, c_separator)
  THEN LET m_time == re_search_time(ts_line)
           m_name == re_search_name(meta_line)
       IN  IF m_time.matched /\ m_name.matched
           THEN <<ChapterLine(m_time.group, c_separator, m_name.group)>>
           ELSE <<>>
  ELSE <<>>

\* the body of the loop for one record: what it appends to results
RecordEntries(m_color, c_separator, ts_line, meta_line) ==
  IF ColorMatches(m_color, meta_line)
  THEN LET m_time == re_search_time(ts_line)
           m_name == re_search_name(meta_line)
       IN  IF m_time.matched /\ m_name.matched
           THEN <<ChapterLine(m_time.group, c_separator, m_name.group)>>
           ELSE <<>>
  ELSE <<>>

\* the loop over the remaining indices idx; lines[i+1] raises IndexError
\* when i+1 is no index of lines
RECURSIVE ChapterLoop(_, _, _, _, _)
ChapterLoop(m_color, c_separator, ls, idx, results) ==
  IF idx = <<>> THEN Return(results)
  ELSE LET i == Head(idx)
       IN  IF ~ValidIndex(ls, i + 1) THEN Raise("IndexError")
           ELSE ChapterLoop(m_color, c_separator, ls, Tail(idx),
                  results \o RecordEntries(m_color, c_separator, At(ls, i), At(ls, i + 1)))

\* the list results after the loop, or the exception the loop raised
ChapterResults(m_color, c_separator, ls) ==
  ChapterLoop(m_color, c_separator, ls, RecordIndices(Len(ls)), <<CHAPTERS_HEADER>>)

\* _format_chapters with the stored preferences given
FormatWith(m_color, c_separator, ls) ==
  IF TooFewLines(Len(ls)) THEN Return(<<>>)
  ELSE LET r == ChapterResults(m_color, c_separator, ls)
       IN  IF r.exc # "none" THEN r
           ELSE IF Len(r.val) > 1 THEN Return(join_newline(r.val))
           ELSE Return(<<>>)

\* as format_chapters, with the list results kept from one call to the next
format_chapters_accumulating(user_id, ls) ==
  LET choices == get_choices(user_id)
      fresh == FormatWith(choices.m_color, choices.c_separator, ls)
      kept == result[user_id]
  IN  IF kept.exc = "none" /\ kept.val # <<>> /\ fresh.exc = "none" /\ fresh.val # <<>>
      THEN Return(kept.val \o SubSeq(fresh.val, Len(CHAPTERS_HEADER) + 1, Len(fresh.val)))
      ELSE fresh

\* _format_chapters(user_id, lines)
format_chapters(user_id, ls) ==
  LET choices == get_choices(user_id)
  IN  FormatWith(choices.m_color, choices.c_separator, ls)

(***************************************************************************)
(* The extraction on its own: user u1's stored preferences and the lines   *)
(* are drawn, and _format_chapters is called on them, again and again: pc  *)
(* is "call" before the first call, "returned" after it and "repeated"     *)
(* after any later one.                                                    *)
(***************************************************************************)
NoReply == [by |-> "none", text |-> <<>>]

InitFn ==
  /\ \E c \in M_COLORS, s \in Separators :
       db = [u \in {"u1"} |-> [m_color |-> c, c_separator |-> s]]
  /\ \E f \in Files : lines = [u \in Users |-> IF u = "u1" THEN f ELSE <<>>]
  /\ pc = [u \in Users |-> IF u = "u1" THEN "call" ELSE "idle"]
  /\ result = [u \in Users |-> NoResult]
  /\ reply = [u \in Users |-> NoReply]

\* one call of _format_chapters(user_id, lines): it writes nothing but its
\* return value
FormatChapters(u) ==
  /\ pc[u] \in {"call", "returned", "repeated"}
  /\ result' = [result EXCEPT ![u] = format_chapters(u, lines[u])]
  /\ pc' = [pc EXCEPT ![u] = IF pc[u] = "call" THEN "returned" ELSE "repeated"]
  /\ UNCHANGED <<db, lines, reply>>

NextFn == \E u \in Users : FormatChapters(u)

SpecFn == InitFn /\ [][NextFn]_vars

(***************************************************************************)
(* The bot: handlers run for several users and interleave at their awaits. *)
(* For each user, result and reply are what the handler that last ran for  *)
(* that user computed and sent.                                            *)
(***************************************************************************)
\* the uploaded files: the first 5, 6, 7 and 9 lines of one listing whose
\* first record is red and whose second is blue
SampleFile ==
  <<HeaderLine, HeaderLine, HeaderLine, T_ok, M_red, BlankLine, T_ok, M_blue, BlankLine>>

BotFiles == {SubSeq(SampleFile, 1, n) : n \in {5, 6, 7, 9}}

Suffixes == {".edl", ".txt"}

Init ==
  /\ db = [u \in {} |-> DefaultRow]
  /\ pc = [u \in Users |-> "idle"]
  /\ lines = [u \in Users |-> <<>>]
  /\ result = [u \in Users |-> NoResult]
  /\ reply = [u \in Users |-> NoReply]

\* send_reply(update, text) from the handler named by
Sent(by, text) == [by |-> by, text |-> text]

\* as UploadReply, with the result forwarded whatever it is
UploadReplyVerbatim(r) ==
  IF r.exc # "none" THEN ERROR_MESSAGE
  ELSE r.val

\* what upload_file_command replies once _process_edl_file has ended with
\* outcome r: handle_errors answers an exception with ERROR_MESSAGE
UploadReply(r) ==
  IF r.exc # "none" THEN ERROR_MESSAGE
  ELSE IF r.val # <<>> THEN r.val
  ELSE EDL_FILE_ERROR_MESSAGE

\* upload_file_command up to its await of the download: function_setup adds
\* the user, the memory check and the suffix check may end the handler
upload_file_command(u, file, suffix, memory_free) ==
  /\ pc[u] = "idle"
  /\ db' = add_user(db, u)
  /\ result' = [result EXCEPT ![u] = NoResult]
  /\ IF ~memory_free
     THEN /\ reply' = [reply EXCEPT ![u] = Sent("upload_file_command", RAM_FULL_MESSAGE)]
          /\ UNCHANGED <<pc, lines>>
     ELSE IF suffix # ".edl"
     THEN /\ reply' = [reply EXCEPT ![u] = Sent("upload_file_command", UPLOAD_EDL_FILE_MESSAGE)]
          /\ UNCHANGED <<pc, lines>>
     ELSE /\ pc' = [pc EXCEPT ![u] = "download"]
          /\ lines' = [lines EXCEPT ![u] = file]
          /\ reply' = [reply EXCEPT ![u] = NoReply]

\* _process_edl_file after the download: the lines are read, _format_chapters
\* runs on them, the file is removed, and upload_file_command replies
process_edl_file(u) ==
  /\ pc[u] = "download"
  /\ LET r == format_chapters(u, lines[u])
     IN  /\ result' = [result EXCEPT ![u] = r]
         /\ reply' = [reply EXCEPT ![u] = Sent("upload_file_command", UploadReply(r))]
  /\ pc' = [pc EXCEPT ![u] = "idle"]
  /\ lines' = [lines EXCEPT ![u] = <<>>]
  /\ UNCHANGED db

\* change_markers_color_callback: the colour of the pressed button is stored
change_markers_color_callback(u, m_color) ==
  /\ db' = update_markers_color(add_user(db, u), u, m_color)
  /\ result' = [result EXCEPT ![u] = NoResult]
  /\ reply' = [reply EXCEPT ![u] =
       Sent("change_markers_color_callback", MARKERS_COLOR_UPDATED_MESSAGE(m_color))]
  /\ UNCHANGED <<pc, lines>>

\* change_chapters_separator_callback: the text of the message is stored
change_chapters_separator_callback(u, c_separator) ==
  /\ db' = update_chapters_separator(add_user(db, u), u, c_separator)
  /\ result' = [result EXCEPT ![u] = NoResult]
  /\ reply' = [reply EXCEPT ![u] =
       Sent("change_chapters_separator_callback", CHAPTERS_SEPARATOR_UPDATED_MESSAGE(c_separator))]
  /\ UNCHANGED <<pc, lines>>

Next ==
  \/ \E u \in Users, file \in BotFiles, suffix \in Suffixes, memory_free \in BOOLEAN :
       upload_file_command(u, file, suffix, memory_free)
  \/ \E u \in Users : process_edl_file(u)
  \/ \E u \in Users, m_color \in M_COLORS : change_markers_color_callback(u, m_color)
  \/ \E u \in Users, c_separator \in Separators : change_chapters_separator_callback(u, c_separator)

Spec == Init /\ [][Next]_vars

(***************************************************************************)
(* What the properties speak of, stated on the text of the lines and not   *)
(* through the operators of the extraction.                                *)
(***************************************************************************)
\* a call of _format_chapters for u has returned or raised
Called(u) == pc[u] \in {"returned", "repeated"}

\* t is two digits, a colon, two digits, a colon, two digits
IsTime(t) ==
  /\ Len(t) = 8
  /\ {t[1], t[2], t[4], t[5], t[7], t[8]} \subseteq Digits
  /\ t[3] = ":" /\ t[6] = ":"

TimePositions(s) == {p \in 1..Len(s) : p + 7 <= Len(s) /\ IsTime(SubSeq(s, p, p + 7))}

HasTime(s) == TimePositions(s) # {}

\* the first HH:MM:SS occurrence in s
FirstTime(s) ==
  LET p == CHOOSE x \in TimePositions(s) : \A y \in TimePositions(s) : x <= y
  IN  SubSeq(s, p, p + 7)

\* <<p, q>>: '|M:' stands at p and ' |D:' at q, after it
LabelBounds(s) ==
  {b \in (1..Len(s)) \X (1..Len(s)) :
     /\ b[1] + 2 <= Len(s) /\ SubSeq(s, b[1], b[1] + 2) = NAME_OPEN
     /\ b[2] >= b[1] + 3
     /\ b[2] + 3 <= Len(s) /\ SubSeq(s, b[2], b[2] + 3) = NAME_CLOSE}

HasLabel(s) == LabelBounds(s) # {}

\* the shortest text between the first such '|M:' and a ' |D:'
ShortestLabel(s) ==
  LET b == CHOOSE x \in LabelBounds(s) :
             \A y \in LabelBounds(s) : x[1] < y[1] \/ (x[1] = y[1] /\ x[2] <= y[2])
  IN  SubSeq(s, b[1] + 3, b[2] - 1)

\* 'CAPITOLI', a newline, and a divider of 20 dashes
HeaderText == <<"C", "A", "P", "I", "T", "O", "L", "I">> \o <<"\n">> \o [k \in 1..20 |-> "-"]

\* the record at 0-based index i of ls has its metadata line, that line
\* carries the colour tag, and both extractions succeed
Qualifies(m_color, ls, i) ==
  /\ i + 1 <= Len(ls) - 1
  /\ \E p \in 1..Len(ls[i + 2]) :
       /\ p + Len(COLOR_TAG \o m_color) - 1 <= Len(ls[i + 2])
       /\ SubSeq(ls[i + 2], p, p + Len(COLOR_TAG \o m_color) - 1) = COLOR_TAG \o m_color
  /\ HasTime(ls[i + 1])
  /\ HasLabel(ls[i + 2])

\* the record carries the colour tag but an extraction fails
Malformed(m_color, ls, i) ==
  /\ i + 1 <= Len(ls) - 1
  /\ \E p \in 1..Len(ls[i + 2]) :
       /\ p + Len(COLOR_TAG \o m_color) - 1 <= Len(ls[i + 2])
       /\ SubSeq(ls[i + 2], p, p + Len(COLOR_TAG \o m_color) - 1) = COLOR_TAG \o m_color
  /\ ~(HasTime(ls[i + 1]) /\ HasLabel(ls[i + 2]))

\* the record indices 3, 6, 9, ... of a file of n lines
RecordStarts(n) == {i \in 3..(n - 1) : i % 3 = 0}

QualifyingRecords(m_color, ls) == {i \in RecordStarts(Len(ls)) : Qualifies(m_color, ls, i)}

\* the chapter line of the record at i
ExpectedLine(c_separator, ls, i) ==
  FirstTime(ls[i + 1]) \o <<" ">> \o c_separator \o <<" ">> \o ShortestLabel(ls[i + 2])

RECURSIVE Ascending(_)
Ascending(S) ==
  IF S = {} THEN <<>>
  ELSE LET m == CHOOSE x \in S : \A y \in S : x <= y
       IN  <<m>> \o Ascending(S \ {m})

\* the chapter lines of the qualifying records, in input order
ExpectedLines(m_color, c_separator, ls) ==
  LET idx == Ascending(QualifyingRecords(m_color, ls))
  IN  [k \in 1..Len(idx) |-> ExpectedLine(c_separator, ls, idx[k])]

\* text cut at its newlines
RECURSIVE SplitLines(_)
SplitLines(text) ==
  LET breaks == {p \in 1..Len(text) : text[p] = "\n"}
  IN  IF breaks = {} THEN <<text>>
      ELSE LET p == CHOOSE x \in breaks : \A y \in breaks : x <= y
           IN  <<SubSeq(text, 1, p - 1)>> \o SplitLines(SubSeq(text, p + 1, Len(text)))

\* the lines of a returned text after its two header lines
ChapterLinesOf(text) ==
  IF text = <<>> THEN <<>>
  ELSE LET all == SplitLines(text) IN SubSeq(all, 3, Len(all))

(***************************************************************************)
(* Properties.                                                             *)
(***************************************************************************)
\* C1: for every input of every length the extraction raises nothing, and for
\* every record index i the stride-3 loop visits, i+1 is an index of lines.
C1_NoIndexError ==
  \A u \in Users : Called(u) =>
    /\ result[u].exc = "none"
    /\ Len(lines[u]) >= 6 => \A i \in RecordStarts(Len(lines[u])) : i + 1 <= Len(lines[u]) - 1

\* C2: for a 6-line input whose metadata line (index 4) carries the colour tag
\* and a '|M:label |D:' label and whose timestamp line (index 3) has an
\* HH:MM:SS substring, the result is the header 'CAPITOLI', a newline, 20
\* dashes, a newline and the one line '{time} {separator} {label}', with the
\* first HH:MM:SS of line 3 and the shortest text from '|M:' to ' |D:'.
C2_SingleRecord ==
  \A u \in Users :
    (Called(u) /\ Len(lines[u]) = 6 /\ Qualifies(db[u].m_color, lines[u], 3)) =>
      result[u] = Return(HeaderText \o <<"\n">> \o FirstTime(lines[u][4]) \o <<" ">>
                           \o db[u].c_separator \o <<" ">> \o ShortestLabel(lines[u][5]))

\* a 6-line input with the timestamp line '00:01:23:00' has yielded a chapter
C2_Witness ==
  \E u \in Users :
    /\ Called(u) /\ Len(lines[u]) = 6 /\ Qualifies(db[u].m_color, lines[u], 3)
    /\ lines[u][4] = T_ok /\ lines[u][5] = M_multi
    /\ result[u].val # <<>>

\* C3: for every input of fewer than 6 lines the extraction returns the empty
\* string, whatever the lines, the stored colour and the stored separator.
C3_ShortInput ==
  \A u \in Users : (Called(u) /\ Len(lines[u]) < 6) => result[u] = Return(<<>>)

\* a 5-line input whose lines 3 and 4 form a record that qualifies
C3_Witness ==
  \E u \in Users :
    /\ Called(u) /\ Len(lines[u]) = 5 /\ Qualifies(db[u].m_color, lines[u], 3)
    /\ result[u] = Return(<<>>)

\* C4: the chapter lines of the result are, one for one and in input order,
\* those of the records i = 3, 6, 9, ... whose metadata line i+1 carries the
\* colour tag and for which both extractions succeed.
C4_ChapterLines ==
  \A u \in Users : (Called(u) /\ Len(lines[u]) >= 6) =>
    /\ result[u].exc = "none"
    /\ ChapterLinesOf(result[u].val)
         = ExpectedLines(db[u].m_color, db[u].c_separator, lines[u])

\* C5: a record that matches the colour but lacks the timestamp or the label
\* contributes no chapter line and does not stop the loop: every later record
\* that qualifies still has its chapter line in the result.
C5_MalformedSkipped ==
  \A u \in Users : (Called(u) /\ Len(lines[u]) >= 6) =>
    \A j, i \in RecordStarts(Len(lines[u])) :
      (j < i /\ Malformed(db[u].m_color, lines[u], j) /\ Qualifies(db[u].m_color, lines[u], i)) =>
        /\ result[u].exc = "none"
        /\ \E k \in 1..Len(ChapterLinesOf(result[u].val)) :
             ChapterLinesOf(result[u].val)[k] = ExpectedLine(db[u].c_separator, lines[u], i)
        /\ Len(ChapterLinesOf(result[u].val))
             = Cardinality(QualifyingRecords(db[u].m_color, lines[u]))

\* C6: when no record yields a chapter entry the result is the empty string;
\* every result is empty or the two-line header followed by at least one
\* chapter line.
C6_EmptyOrChapters ==
  \A u \in Users : Called(u) =>
    /\ result[u].exc = "none"
    /\ (Len(lines[u]) < 6 \/ QualifyingRecords(db[u].m_color, lines[u]) = {})
         => result[u].val = <<>>
    /\ \/ result[u].val = <<>>
       \/ /\ Len(result[u].val) > Len(HeaderText) + 1
          /\ SubSeq(result[u].val, 1, Len(HeaderText) + 1) = HeaderText \o <<"\n">>
          /\ Len(ChapterLinesOf(result[u].val)) >= 1

\* a chapter line taken apart around the separator it was written with:
\* the 8 characters of the time, ' separator ', and the label
AroundSeparator(line, c_separator) ==
  [wellformed |-> /\ Len(line) >= 8 + Len(c_separator) + 2
                  /\ SubSeq(line, 9, 8 + Len(c_separator) + 2)
                       = <<" ">> \o c_separator \o <<" ">>,
   time       |-> SubSeq(line, 1, 8),
   label      |-> SubSeq(line, 8 + Len(c_separator) + 3, Len(line))]

\* C7: the separator stands verbatim between timestamp and label in each
\* chapter line and takes no part in matching: the run on the same lines and
\* colour with any other separator ends the same way, selects the same
\* records and extracts the same timestamps and labels.
C7_SeparatorVerbatim ==
  \A u \in Users : Called(u) =>
    \A s \in ComparedSeparators :
      LET other == FormatWith(db[u].m_color, s, lines[u])
          mine == ChapterLinesOf(result[u].val)
          theirs == ChapterLinesOf(other.val)
      IN  /\ other.exc = result[u].exc
          /\ Len(theirs) = Len(mine)
          /\ \A k \in 1..Len(mine) :
               /\ AroundSeparator(mine[k], db[u].c_separator).wellformed
               /\ AroundSeparator(theirs[k], s)
                    = AroundSeparator(mine[k], db[u].c_separator)

\* a run with the separator '|' has yielded two chapter lines
C7_Witness ==
  \E u \in Users :
    /\ Called(u) /\ db[u].c_separator = <<"|">>
    /\ Len(ChapterLinesOf(result[u].val)) = 2

\* C8: in the upload handler, for an '.edl' file, the reply is the extractor's
\* result when that result is not empty and EDL_FILE_ERROR_MESSAGE when it is
\* the empty string; no empty reply is ever sent.
C8_ReplyForEdl ==
  \A u \in Users :
    /\ reply[u].by # "none" => reply[u].text # <<>>
    /\ (reply[u].by = "upload_file_command" /\ result[u].exc = "none") =>
         reply[u].text = IF result[u].val # <<>> THEN result[u].val
                         ELSE EDL_FILE_ERROR_MESSAGE

\* one upload was answered with its chapters, another with the fixed message
C8_Witness ==
  /\ \E u \in Users :
       /\ reply[u].by = "upload_file_command"
       /\ result[u].exc = "none" /\ result[u].val # <<>>
       /\ reply[u].text = result[u].val
  /\ \E u \in Users :
       /\ reply[u].by = "upload_file_command"
       /\ result[u] = Return(<<>>)
       /\ reply[u].text = EDL_FILE_ERROR_MESSAGE

IgnoredIndices(n) == {k \in 0..(n - 1) : k < 3 \/ k % 3 = 2}

\* ls with the lines at the indices of S replaced
Overwritten(ls, S, line) == [k \in 1..Len(ls) |-> IF (k - 1) \in S THEN line ELSE ls[k]]

\* C10: the result depends only on the lines i and i+1 for i = 3, 6, 9, ...:
\* an input of the same length that differs only in header lines or in third
\* lines of records has the same result for the same colour and separator.
C10_IgnoredLines ==
  \A u \in Users : Called(u) =>
    \A S \in SUBSET IgnoredIndices(Len(lines[u])) :
      format_chapters(u, Overwritten(lines[u], S, Decoy)) = result[u]

\* a 9-line input, with header and third lines to vary, has yielded chapters
C10_Witness ==
  \E u \in Users :
    /\ Called(u) /\ Len(lines[u]) = 9
    /\ Len(ChapterLinesOf(result[u].val)) = 2

\* the step stores a row for v or changes v's row
StoredChanged(v) == v \in DOMAIN db' /\ (v \notin DOMAIN db \/ db'[v] # db[v])

\* the step is the extraction of u's upload: the download ends and the
\* handler replies
ExtractionOf(u) == pc[u] = "download" /\ pc'[u] = "idle"

\* C11: under any interleaving of uploads and preference updates by different
\* users, the result of a user's extraction is computed from that user's own
\* stored colour and separator, the extraction writes no stored preference
\* and nothing of another user, and a step that stores or changes another
\* user's preferences leaves this user's preferences, lines and result alone.
C11_OwnChoicesOnly ==
  [][\A u \in Users :
       /\ ExtractionOf(u) =>
            /\ result'[u] = FormatWith(db[u].m_color, db[u].c_separator, lines[u])
            /\ db' = db
            /\ \A v \in Users \ {u} :
                 /\ result'[v] = result[v] /\ reply'[v] = reply[v]
                 /\ lines'[v] = lines[v] /\ pc'[v] = pc[v]
       /\ \A v \in Users \ {u} :
            (u \in DOMAIN db /\ StoredChanged(v)) =>
              /\ db'[u] = db[u]
              /\ lines'[u] = lines[u]
              /\ result'[u] = result[u]]_vars

\* one user's upload has been answered with chapters while the upload of
\* another user, who stores another colour and another separator, is in flight
C11_Witness ==
  \E u, v \in Users :
    /\ u # v /\ u \in DOMAIN db /\ v \in DOMAIN db
    /\ reply[u].by = "upload_file_command"
    /\ result[u].exc = "none" /\ result[u].val # <<>>
    /\ pc[v] = "download"
    /\ reply[v].by = "change_markers_color_callback"
    /\ db[v].m_color # db[u].m_color
    /\ db[v].c_separator # db[u].c_separator

====
